---- MODULE Spec2Model ----
(***************************************************************************)
(* Model of src/app.py: the Flask application built by create_app().       *)
(*                                                                         *)
(* Strings that the code inspects character by character (lower(),         *)
(* concatenation, seeding) are sequences of one-character strings.         *)
(* JSON values are records [t, n, s] with a type tag t:                    *)
(*   "null"           JSON null                 (Python None)              *)
(*   "num"            JSON integer n            (Python int)               *)
(*   "inf" / "ninf"   JSON number literal beyond the double range, such as *)
(*                    1e999 / -1e999, which json.loads turns into          *)
(*                    float('inf') / float('-inf')                         *)
(*   "str"            JSON string s                                        *)
(*   "arr"            JSON array of n elements                             *)
(***************************************************************************)
EXTENDS Integers, Sequences, FiniteSets, TLC

(***************************************************************************)
(* Bounds of the model.                                                    *)
(***************************************************************************)
MaxSmall == 6      \* numeric fields range over -MaxSmall..MaxSmall, ...
MaxBig == 4        \* ... over 100*k for k in -MaxBig..MaxBig, and examples
NumThreads == 2    \* concurrent assessment requests
MaxClock == 1      \* wall-clock readings 0..MaxClock

VARIABLES
    req,        \* the request being served
    resp,       \* the response to it
    rng,        \* state of the module-level generator of `random`
    seen,       \* history: first recommendations order returned per seed
    pc,         \* per thread: position in run_assessment
    treq,       \* per thread: the (material, production) of its request
    tlist,      \* per thread: its local `recommendations` list
    ti          \* per thread: loop index i of random.shuffle

vars == <<req, resp, rng, seen, pc, treq, tlist, ti>>

(***************************************************************************)
(* Strings                                                                 *)
(***************************************************************************)
UpperChars == <<"A","B","C","D","E","I","L","M","N","O","R","S","U","W">>
LowerChars == <<"a","b","c","d","e","i","l","m","n","o","r","s","u","w">>

\* str.lower() on one character
LowerChar(c) ==
    IF \E i \in 1..Len(UpperChars) : UpperChars[i] = c
    THEN LowerChars[CHOOSE i \in 1..Len(UpperChars) : UpperChars[i] = c]
    ELSE c

\* str.lower()
Lower(s) == [i \in 1..Len(s) |-> LowerChar(s[i])]

Digits == <<"0","1","2","3","4","5","6","7","8","9">>
IsDigit(c) == \E i \in 1..10 : Digits[i] = c
DigitVal(c) == (CHOOSE i \in 1..10 : Digits[i] = c) - 1

RECURSIVE ParseDigits(_)
ParseDigits(s) ==
    IF s = <<>> THEN 0
    ELSE 10 * ParseDigits(SubSeq(s, 1, Len(s) - 1)) + DigitVal(s[Len(s)])

S_low == <<"l","o","w">>
S_renewable == <<"r","e","n","e","w","a","b","l","e">>
S_medium == <<"m","e","d","i","u","m">>
S_road == <<"r","o","a","d">>
S_rail == <<"r","a","i","l">>
S_sea == <<"s","e","a">>

(***************************************************************************)
(* JSON values and the Python operations applied to them                   *)
(***************************************************************************)
JNull == [t |-> "null", n |-> 0, s |-> <<>>]
JNum(k) == [t |-> "num", n |-> k, s |-> <<>>]
JInf == [t |-> "inf", n |-> 0, s |-> <<>>]
JNegInf == [t |-> "ninf", n |-> 0, s |-> <<>>]
JStr(x) == [t |-> "str", n |-> 0, s |-> x]
JArr(k) == [t |-> "arr", n |-> k, s |-> <<>>]

\* Python truth value of a parsed JSON value (the left operand of `or`)
Truthy(v) ==
    CASE v.t = "null" -> FALSE
      [] v.t = "num" -> v.n # 0
      [] v.t = "str" -> v.s # <<>>
      [] v.t = "arr" -> v.n > 0
      [] OTHER -> TRUE

\* x or d
Or(v, d) == IF Truthy(v) THEN v ELSE d

\* dict.get(key, default)
Get(d, key, default) == IF key \in DOMAIN d THEN d[key] ELSE default

(***************************************************************************)
(* Floats.  A float is [k, n]: k = "fin" with integer value n, or "inf",   *)
(* "ninf", "nan".  Numeric inputs are integers, so every finite float that *)
(* float() returns is an integer; fractions appear only inside the score   *)
(* formulas, which are computed below.                                     *)
(***************************************************************************)
Fin(k) == [k |-> "fin", n |-> k]
FInf == [k |-> "inf", n |-> 0]
FNegInf == [k |-> "ninf", n |-> 0]
FNan == [k |-> "nan", n |-> 0]

\* Error raised by float(v), "" if none.  Strings of digits parse; the
\* other strings of the model are not numeric.
FloatError(v) ==
    CASE v.t = "str" ->
           IF v.s # <<>> /\ \A i \in 1..Len(v.s) : IsDigit(v.s[i])
           THEN "" ELSE "ValueError"
      [] v.t \in {"arr", "null"} -> "TypeError"
      [] OTHER -> ""

\* float(v)
ToFloat(v) ==
    CASE v.t = "num" -> Fin(v.n)
      [] v.t = "inf" -> FInf
      [] v.t = "ninf" -> FNegInf
      [] v.t = "str" -> Fin(ParseDigits(v.s))
      [] OTHER -> FNan

\* a - b on floats
FSub(a, b) ==
    CASE a.k = "nan" \/ b.k = "nan" -> FNan
      [] a.k = "fin" /\ b.k = "fin" -> Fin(a.n - b.n)
      [] a.k = "fin" -> IF b.k = "inf" THEN FNegInf ELSE FInf
      [] b.k = "fin" -> a
      [] a.k = b.k -> FNan
      [] OTHER -> a

Max(a, b) == IF a >= b THEN a ELSE b
Min(a, b) == IF a <= b THEN a ELSE b
Abs(a) == IF a < 0 THEN -a ELSE a
Sign(a) == IF a < 0 THEN -1 ELSE IF a > 0 THEN 1 ELSE 0

RECURSIVE Pow2(_)
Pow2(k) == IF k = 0 THEN 1 ELSE 2 * Pow2(k - 1)

(***************************************************************************)
(* IEEE-754 double arithmetic of line 78, recycled * 0.2 - raw * 0.1, for  *)
(* integer operands.  The doubles nearest 0.2 and 0.1 share the 53-bit     *)
(* significand M = 0x1999999999999A (0.2 = M * 2^-55, 0.1 = M * 2^-56) and *)
(* 5 * M = 2^55 + 2.  Hence, with u = 2^-55, the rounded product is        *)
(*     fl(r * 0.2) = r/5  + MulErr(r) * u/5,                               *)
(*     fl(w * 0.1) = w/10 + MulErr(w) * u/10,                              *)
(* where MulErr accounts for the excess of M over 2^55/5 and for rounding  *)
(* the exact product r * M to 53 bits (round-half-even).  Only the low     *)
(* bits of M take part, so everything stays in small integers.             *)
(***************************************************************************)
MLow == 2458       \* M mod 2^12
MLowBits == 12

\* Number of low bits that r * M (r >= 1) loses when rounded to 53 bits
RECURSIVE RoundShift(_, _)
RoundShift(r, j) ==
    IF j < MLowBits - 1 /\ 8 * r >= 5 * Pow2(j + 1)
    THEN RoundShift(r, j + 1) ELSE j

\* Rounding adjustment of the exact product r * M (r >= 1), in units of u
RoundAdj(r) ==
    LET sh == RoundShift(r, 0)
        rem == (r * MLow) % Pow2(sh)
        odd == ((r * MLow) \div Pow2(sh)) % 2 = 1
    IN  IF sh = 0 THEN 0
        ELSE IF 2 * rem < Pow2(sh) THEN -rem
        ELSE IF 2 * rem > Pow2(sh) THEN Pow2(sh) - rem
        ELSE IF odd THEN Pow2(sh) - rem ELSE -rem

\* fl(r * 0.2) = r/5 + MulErr(r) * u/5
MulErr(r) ==
    IF r = 0 THEN 0
    ELSE Sign(r) * (2 * Abs(r) + 5 * RoundAdj(Abs(r)))

RECURSIVE ILog2(_)
ILog2(k) == IF k < 2 THEN 0 ELSE 1 + ILog2(k \div 2)

\* For an integer k >= 1 and the exact difference k + F * u/10 with F < 0:
\* does it round to a double below k?  (Half the gap to the double below k
\* is 5 * 2^(e+3) units, or 5 * 2^(e+2) when k = 2^e; a tie rounds to k.)
RoundsBelow(k, F) ==
    LET e == ILog2(k)
        half == IF Pow2(e) = k THEN 5 * Pow2(e + 2) ELSE 5 * Pow2(e + 3)
    IN  F < 0 /\ -F > half

\* int(r * 0.2 - w * 0.1) in double arithmetic: truncation toward zero of
\* the rounded difference of the rounded products
IntOfScaledDiff(r, w) ==
    LET K == 2 * r - w                      \* ten times the exact value
        F == 2 * MulErr(r) - MulErr(w)      \* its error, in units of u/10
        k == Sign(K) * (Abs(K) \div 10)
    IN  IF K % 10 # 0 \/ K = 0 THEN k
        ELSE IF RoundsBelow(Abs(k), Sign(K) * F) THEN k - Sign(K)
        ELSE k

(***************************************************************************)
(* The score formulas of run_assessment (lines 71-79)                      *)
(***************************************************************************)
\* round(x) for x given in exact tenths: round-half-even.  On the integer
\* operands of the model the double value of 50 + d * 0.3 (+10) (+5) rounds
\* to the same integer as the exact value (ties are exact in binary).
RoundTenths(x10) ==
    LET q == x10 \div 10
        rem == x10 % 10
    IN  IF rem > 5 \/ (rem = 5 /\ q % 2 = 1) THEN q + 1 ELSE q

\* max(0, min(100, x))
Clamp(x) == Max(0, Min(100, x))

\* lines 72-73: energy_use.lower() in ("low", "renewable")
EnergyBonus(energy_use) ==
    IF Lower(energy_use) \in {S_low, S_renewable} THEN 10 ELSE 0

\* lines 74-75: transport.lower() in ("rail", "sea")
TransportBonus(transport) ==
    IF Lower(transport) \in {S_rail, S_sea} THEN 5 ELSE 0

\* variant: the bonuses are added after rounding and clamping
CircularityScoreBonusAfterClamp(recycled, raw_material, energy_use, transport) ==
    Clamp(RoundTenths(500 + (recycled - raw_material) * 3))
        + EnergyBonus(energy_use) + TransportBonus(transport)

\* lines 71-76, for finite integer recycled and raw_material
CircularityScore(recycled, raw_material, energy_use, transport) ==
    LET base10 == 500 + (recycled - raw_material) * 3
                      + 10 * EnergyBonus(energy_use)
                      + 10 * TransportBonus(transport)
    IN  Clamp(RoundTenths(base10))

\* variant: floor of the exact value instead of int() of the double
EnvironmentalScoreFloor(recycled, raw_material) ==
    Clamp(60 + ((2 * recycled - raw_material) \div 10))

\* lines 78-79, for finite integer recycled and raw_material
EnvironmentalScore(recycled, raw_material) ==
    Clamp(60 + IntOfScaledDiff(recycled, raw_material))

\* Error of round(x) / int(x) on a non-finite float, "" if none
IntConvError(x) ==
    CASE x.k \in {"inf", "ninf"} -> "OverflowError"
      [] x.k = "nan" -> "ValueError"
      [] OTHER -> ""

(***************************************************************************)
(* The module-level generator of `random` (lines 81 and 88).               *)
(*                                                                         *)
(* random.seed(a) and random.shuffle(x) act on one generator shared by the *)
(* whole process.  CPython's Mersenne Twister (32-bit words, seeded from   *)
(* SHA-512 of the string) is replaced by a full-period linear congruential *)
(* generator with WordBits-bit words; what is kept is the structure: the   *)
(* state after seed(a) is a function of a alone, every getrandbits(k)      *)
(* advances the state by one word and returns the word's top k bits,       *)
(* _randbelow(n) rejects words >= n, and shuffle is Fisher-Yates from the  *)
(* last index down.                                                        *)
(***************************************************************************)
WordBits == 4
RngStates == 0..(Pow2(WordBits) - 1)

\* one step of the generator
RngStep(x) == (5 * x + 3) % Pow2(WordBits)

CharCodes == <<"a","b","c","d","e","f","g","h">>
CharCode(c) ==
    IF \E i \in 1..Len(CharCodes) : CharCodes[i] = c
    THEN CHOOSE i \in 1..Len(CharCodes) : CharCodes[i] = c
    ELSE 0

\* digest of a seed string
RECURSIVE StrHash(_)
StrHash(s) ==
    IF s = <<>> THEN 7
    ELSE (3 * StrHash(SubSeq(s, 1, Len(s) - 1)) + CharCode(s[Len(s)]))
             % Pow2(WordBits)

\* variant: seeding mixes the digest into the previous state
SeedMixesState(state, a) ==
    (state + (IF a.t = "str" THEN StrHash(a.s) ELSE Abs(a.n))) % Pow2(WordBits)

\* random.seed(a): the new generator state; a is a str or an int.  The
\* previous state plays no part.
Seed(state, a) ==
    IF a.t = "str" THEN StrHash(a.s) ELSE Abs(a.n) % Pow2(WordBits)

\* getrandbits(k): [st |-> new state, v |-> value]
GetRandBits(state, k) ==
    LET x == RngStep(state)
    IN  [st |-> x, v |-> x \div Pow2(WordBits - k)]

\* int.bit_length() for n >= 1
BitLength(n) == ILog2(n) + 1

\* _randbelow(n): draw until a value below n comes
RECURSIVE RandBelow(_, _)
RandBelow(state, n) ==
    LET d == GetRandBits(state, BitLength(n))
    IN  IF d.v < n THEN d ELSE RandBelow(d.st, n)

\* x[i], x[j] = x[j], x[i]   (0-based i, j)
Swap(x, i, j) == [x EXCEPT ![i + 1] = x[j + 1], ![j + 1] = x[i + 1]]

\* random.shuffle(x), from loop index i down to 1:
\* [st |-> final state, x |-> shuffled list]
RECURSIVE ShuffleFrom(_, _, _)
ShuffleFrom(state, x, i) ==
    IF i < 1 THEN [st |-> state, x |-> x]
    ELSE LET d == RandBelow(state, i + 1)
         IN  ShuffleFrom(d.st, Swap(x, i, d.v), i - 1)

Shuffle(state, x) == ShuffleFrom(state, x, Len(x) - 1)

\* lines 82-87
Catalog == <<
    "Increase recycled content to reduce virgin input dependency",
    "Optimize transport routes and prefer rail/sea logistics",
    "Adopt closed-loop water systems in processing",
    "Redesign product for easier disassembly and reuse" >>

(***************************************************************************)
(* Requests and responses                                                  *)
(*                                                                         *)
(* A path is the sequence of its segments: "/" is <<>>, "/api/health" is   *)
(* <<"api","health">>, "/api/" is <<"api","">>.                            *)
(* A body is                                                               *)
(*   kind "none"    no body / not JSON content                             *)
(*   kind "bad"     bytes that do not parse as JSON                        *)
(*   kind "scalar"  a JSON value that is not an object (field scalar)      *)
(*   kind "obj"     a JSON object; hasPD says whether it has the key       *)
(*                  processData, whose value is the object pd (pdKind      *)
(*                  "obj": a mapping from field names to JSON values) or   *)
(*                  the non-object pdScalar (pdKind "scalar").             *)
(***************************************************************************)
EmptyDict == [k \in {} |-> JNull]

Body(kind, scalar, hasPD, pdKind, pdScalar, pd) ==
    [kind |-> kind, scalar |-> scalar, hasPD |-> hasPD, pdKind |-> pdKind,
     pdScalar |-> pdScalar, pd |-> pd]

NoBody == Body("none", JNull, FALSE, "obj", JNull, EmptyDict)
BadBody == Body("bad", JNull, FALSE, "obj", JNull, EmptyDict)
ScalarBody(v) == Body("scalar", v, FALSE, "obj", JNull, EmptyDict)
ObjBody == Body("obj", JNull, FALSE, "obj", JNull, EmptyDict)
PDScalarBody(v) == Body("obj", JNull, TRUE, "scalar", v, EmptyDict)
PDBody(pd) == Body("obj", JNull, TRUE, "obj", JNull, pd)

Request(method, path, body) == [method |-> method, path |-> path, body |-> body]

Response(status, kind) ==
    [status |-> status, kind |-> kind, error |-> "",
     circularityScore |-> -1, environmentalScore |-> -1,
     recommendations |-> <<>>, missingParams |-> -1, missingFields |-> <<>>,
     time |-> -1]

NoResponse == Response(0, "none")

\* An unhandled exception: Flask answers 500
ServerError(error) == [Response(500, "error") EXCEPT !.error = error]

(***************************************************************************)
(* run_assessment (lines 50-98)                                            *)
(***************************************************************************)
\* lines 55-63
ExpectedFields ==
    <<"material", "production", "rawMaterial", "recycledContent",
      "energyUse", "transport", "endOfLife">>

\* line 52: request.get_json(silent=True) or {} is a dict unless the body
\* is a truthy JSON value that is not an object
PayloadIsDict(body) ==
    body.kind \in {"none", "bad", "obj"} \/ ~Truthy(body.scalar)

\* line 53: payload.get("processData", {}) is a dict
ProcessDataIsDict(body) ==
    ~(body.kind = "obj" /\ body.hasPD /\ body.pdKind = "scalar")

\* line 53: process_data, when it is a dict
ProcessData(body) ==
    IF body.kind = "obj" /\ body.hasPD THEN body.pd ELSE EmptyDict

\* variant: a key with a falsy value counts as missing
MissingFieldsFalsy(process_data) ==
    SelectSeq(ExpectedFields,
              LAMBDA f : f \notin DOMAIN process_data \/ ~Truthy(process_data[f]))

\* line 64: [f for f in expected_fields if f not in process_data]
MissingFields(process_data) ==
    SelectSeq(ExpectedFields, LAMBDA f : f \notin DOMAIN process_data)

\* variant: an empty value falls back to 50 as an absent key does
NumericOperandDefault50(process_data, key) ==
    Or(Get(process_data, key, JNum(50)), JNum(50))

\* lines 66-67: the operand of float(): process_data.get(key, 50) or 0
NumericOperand(process_data, key) ==
    Or(Get(process_data, key, JNum(50)), JNum(0))

\* lines 68-69: process_data.get(key, "") or default
TextField(process_data, key, default) ==
    Or(Get(process_data, key, JStr(<<>>)), JStr(default))

\* line 81: (process_data.get(key) or "")
SeedPart(process_data, key) == Or(Get(process_data, key, JNull), JStr(<<>>))

\* line 81: a + b, for operands of the same type
Concat(a, b) ==
    CASE a.t = "str" -> JStr(a.s \o b.s)
      [] a.t = "num" -> JNum(a.n + b.n)
      [] OTHER -> JArr(a.n + b.n)

\* line 81: the error of random.seed(a + b), "" if none: + is undefined
\* between a str, an int and a list, and a list is no seed
SeedError(a, b) ==
    IF a.t # b.t \/ a.t \notin {"str", "num"} THEN "TypeError" ELSE ""

\* The exception that ends run_assessment, "" if it completes.  The checks
\* follow the order of the statements.
AssessmentError(body) ==
    LET pd == ProcessData(body)
        recycledV == NumericOperand(pd, "recycledContent")
        rawV == NumericOperand(pd, "rawMaterial")
        energy == TextField(pd, "energyUse", S_medium)
        transport == TextField(pd, "transport", S_road)
        diff == FSub(ToFloat(recycledV), ToFloat(rawV))
    IN  CASE ~PayloadIsDict(body) -> "AttributeError"          \* line 53
          [] ~ProcessDataIsDict(body) ->                       \* lines 64, 66
               IF body.pdScalar.t \in {"str", "arr"}
               THEN "AttributeError" ELSE "TypeError"
          [] FloatError(recycledV) # "" -> FloatError(recycledV)   \* line 66
          [] FloatError(rawV) # "" -> FloatError(rawV)             \* line 67
          [] energy.t # "str" -> "AttributeError"              \* line 72
          [] transport.t # "str" -> "AttributeError"           \* line 74
          [] IntConvError(diff) # "" -> IntConvError(diff)     \* lines 76, 78
          [] OTHER -> SeedError(SeedPart(pd, "material"),      \* line 81
                                SeedPart(pd, "production"))

\* The result of run_assessment on a body, from generator state `state`:
\* [resp |-> response, rng |-> generator state afterwards]
Assess(body, state) ==
    LET pd == ProcessData(body)
        missing_fields == MissingFields(pd)
        recycled == ToFloat(NumericOperand(pd, "recycledContent")).n
        raw_material == ToFloat(NumericOperand(pd, "rawMaterial")).n
        energy_use == TextField(pd, "energyUse", S_medium).s
        transport == TextField(pd, "transport", S_road).s
        seeded == Seed(state, Concat(SeedPart(pd, "material"),
                                     SeedPart(pd, "production")))
        shuffled == Shuffle(seeded, Catalog)
    IN  IF AssessmentError(body) # ""
        THEN [resp |-> ServerError(AssessmentError(body)), rng |-> state]
        ELSE [resp |->
                [Response(200, "assessment") EXCEPT
                   !.circularityScore =
                       CircularityScore(recycled, raw_material, energy_use, transport),
                   !.environmentalScore =
                       EnvironmentalScore(recycled, raw_material),
                   !.recommendations = SubSeq(shuffled.x, 1, 4),
                   !.missingParams = Max(0, Len(missing_fields)),
                   !.missingFields = missing_fields],
              rng |-> shuffled.st]

\* The (material, production) of a request, the key of the history
SeedKey(body) ==
    <<SeedPart(ProcessData(body), "material"),
      SeedPart(ProcessData(body), "production")>>

\* History of the orders returned: per (material, production), the first
\* order and how many times (capped at 2) it was asked for
Record(history, body, response) ==
    LET key == SeedKey(body)
    IN  IF response.status # 200 THEN history
        ELSE IF key \in DOMAIN history
        THEN [history EXCEPT ![key].count = 2]
        ELSE [k \in DOMAIN history \cup {key} |->
                IF k = key THEN [order |-> response.recommendations, count |-> 1]
                ELSE history[k]]

\* POST /api/assessment
RunAssessment(r) ==
    LET out == Assess(r.body, rng)
    IN  /\ req' = r
        /\ resp' = out.resp
        /\ rng' = out.rng
        /\ seen' = Record(seen, r.body, out.resp)
        /\ UNCHANGED <<pc, treq, tlist, ti>>

(***************************************************************************)
(* Inputs of the assessment                                                *)
(***************************************************************************)
\* marks a key that the mapping does not have
Absent == [t |-> "absent", n |-> 0, s |-> <<>>]

\* the processData mapping with the given value (or Absent) per field
MkPD(material, production, rawMaterial, recycledContent, energyUse, transport, endOfLife) ==
    LET v == [f \in {"material", "production", "rawMaterial", "recycledContent",
                     "energyUse", "transport", "endOfLife"} |->
                CASE f = "material" -> material
                  [] f = "production" -> production
                  [] f = "rawMaterial" -> rawMaterial
                  [] f = "recycledContent" -> recycledContent
                  [] f = "energyUse" -> energyUse
                  [] f = "transport" -> transport
                  [] OTHER -> endOfLife]
    IN  [f \in {g \in DOMAIN v : v[g] # Absent} |-> v[f]]

NumInts ==
    (-MaxSmall..MaxSmall) \cup {100 * k : k \in -MaxBig..MaxBig}
        \cup {20, 43, 46, 50, 80}

\* values of rawMaterial and recycledContent
NumVals ==
    {JNum(n) : n \in NumInts}
        \cup {Absent, JNull, JStr(<<>>), JStr(<<"2","0">>), JStr(<<"a","b","c">>),
              JInf, JNegInf}

\* values of energyUse and transport in the score inputs
EnergyVals ==
    {Absent, JStr(<<>>), JStr(S_low), JStr(<<"L","O","W">>),
     JStr(<<"R","e","n","e","w","a","b","l","e">>), JStr(S_renewable), JStr(S_rail)}
TransportVals ==
    {Absent, JStr(<<>>), JStr(S_rail), JStr(<<"S","e","a">>), JStr(S_road),
     JStr(S_low)}

\* JSON values of any type, for the fields that are meant to be strings
TypeVals ==
    {Absent, JNull, JNum(0), JNum(5), JStr(<<>>), JStr(<<"a">>), JArr(1)}

\* score inputs: the four fields of the formulas vary
ScoreBodies ==
    {PDBody(MkPD(Absent, Absent, raw, rec, e, t, Absent)) :
        raw \in NumVals, rec \in NumVals, e \in EnergyVals, t \in TransportVals}

\* typed inputs: every field varies over the JSON types
TypeBodies ==
    {PDBody(MkPD(m, p, raw, rec, e, t, eol)) :
        m \in TypeVals, p \in TypeVals \ {JNum(0)},
        raw \in {Absent, JNum(0)}, rec \in {Absent, JNum(0), JStr(<<>>)},
        e \in {Absent, JNull, JNum(5), JStr(<<>>), JStr(S_low), JArr(1)},
        t \in {Absent, JNum(0), JStr(S_rail), JArr(1)},
        eol \in {Absent, JNull, JStr(<<"a">>)}}

\* JSON values that are not objects
Scalars ==
    {JNull, JNum(0), JNum(5), JStr(<<>>), JStr(<<"a">>), JArr(0), JArr(1)}

\* missing and malformed bodies
MalformedBodies ==
    {NoBody, BadBody, ObjBody} \cup {ScalarBody(v) : v \in Scalars}
        \cup {PDScalarBody(v) : v \in Scalars}

AssessmentPath == <<"api", "assessment">>

AssessmentBodies == ScoreBodies \cup TypeBodies \cup MalformedBodies

(***************************************************************************)
(* SpecScore: one assessment request, its body drawn from the input sets,  *)
(* is served by run_assessment.                                            *)
(***************************************************************************)
ThreadIds == 1..NumThreads

IdleThreads ==
    /\ pc = [t \in ThreadIds |-> "idle"]
    /\ treq = [t \in ThreadIds |-> NoBody]
    /\ tlist = [t \in ThreadIds |-> <<>>]
    /\ ti = [t \in ThreadIds |-> 0]

InitScore ==
    /\ req \in {Request("POST", AssessmentPath, b) : b \in AssessmentBodies}
    /\ resp = NoResponse
    /\ rng = 0
    /\ seen = EmptyDict
    /\ IdleThreads

ServeAssessment ==
    /\ resp = NoResponse
    /\ RunAssessment(req)

NextScore == ServeAssessment

SpecScore == InitScore /\ [][NextScore]_vars

(***************************************************************************)
(* Properties of run_assessment, checked under SpecScore                   *)
(***************************************************************************)
Served == resp # NoResponse
Completed == resp.status = 200 /\ resp.kind = "assessment"

\* the request carries a processData mapping
HasMapping == req.body.kind = "obj" /\ (req.body.hasPD => req.body.pdKind = "obj")
PD == ProcessData(req.body)

AbsentOr(key, types) == key \notin DOMAIN PD \/ PD[key].t \in types

\* the request's body with processData[key] set to v
WithField(key, v) ==
    PDBody([f \in DOMAIN PD \cup {key} |-> IF f = key THEN v ELSE PD[f]])

SameScores(r1, r2) ==
    /\ r1.status = r2.status
    /\ r1.circularityScore = r2.circularityScore
    /\ r1.environmentalScore = r2.environmentalScore

\* C1: for every processData mapping whose recycledContent and rawMaterial
\* are absent or numeric, of any magnitude, and whose other fields are
\* absent or strings, the response carries a circularityScore and an
\* environmentalScore that are integers in 0..100.
C1_ScoresInRange ==
    (/\ Served
     /\ HasMapping
     /\ AbsentOr("recycledContent", {"num", "inf", "ninf"})
     /\ AbsentOr("rawMaterial", {"num", "inf", "ninf"})
     /\ \A k \in {"material", "production", "energyUse", "transport", "endOfLife"} :
            AbsentOr(k, {"str"}))
    => /\ resp.status = 200
       /\ resp.circularityScore \in 0..100
       /\ resp.environmentalScore \in 0..100

\* C4 as stated: recycledContent and rawMaterial each count as 50 when the
\* key is absent or present with an empty string; the scores are those of
\* the same mapping with 50 sent.
C4_EmptyIs50 ==
    \A k \in {"recycledContent", "rawMaterial"} :
        (Completed /\ HasMapping /\ (k \notin DOMAIN PD \/ PD[k] = JStr(<<>>)))
        => SameScores(resp, Assess(WithField(k, JNum(50)), 0).resp)

\* the text field's value after defaulting: absent or empty gives default
TextOf(key, default) ==
    IF key \notin DOMAIN PD \/ PD[key].s = <<>> THEN default ELSE PD[key].s

\* the value a numeric field stands for: 50 when absent, 0 when empty
ValueOf(key) ==
    IF key \notin DOMAIN PD THEN 50
    ELSE IF PD[key] = JStr(<<>>) THEN 0 ELSE PD[key].n

\* C4 amended: an absent key counts as 50, and a key present with an empty
\* string counts as 0; the scores are those of the same mapping with 50,
\* respectively 0, sent.
C4_AbsentIs50EmptyIs0 ==
    /\ \A k \in {"recycledContent", "rawMaterial"} :
        /\ (Served /\ HasMapping /\ k \notin DOMAIN PD)
            => SameScores(resp, Assess(WithField(k, JNum(50)), 0).resp)
        /\ (Served /\ HasMapping /\ k \in DOMAIN PD /\ PD[k] = JStr(<<>>))
            => SameScores(resp, Assess(WithField(k, JNum(0)), 0).resp)
    /\ (/\ Completed /\ HasMapping
        /\ \A k \in {"recycledContent", "rawMaterial"} :
              k \notin DOMAIN PD \/ PD[k] = JStr(<<>>) \/ PD[k].t = "num"
        /\ AbsentOr("energyUse", {"str"}) /\ AbsentOr("transport", {"str"}))
       => /\ resp.circularityScore =
                CircularityScore(ValueOf("recycledContent"), ValueOf("rawMaterial"),
                                 TextOf("energyUse", S_medium), TextOf("transport", S_road))
          /\ resp.environmentalScore =
                EnvironmentalScore(ValueOf("recycledContent"), ValueOf("rawMaterial"))

\* C4 witness: recycledContent is the empty string, rawMaterial is absent,
\* and the scores served are those of recycledContent = 0 (35 and 55), not
\* those of recycledContent = 50 (50 and 65).
C4_Witness ==
    /\ Completed /\ HasMapping
    /\ "recycledContent" \in DOMAIN PD /\ PD["recycledContent"] = JStr(<<>>)
    /\ DOMAIN PD = {"recycledContent"}
    /\ resp.circularityScore = 35 /\ resp.environmentalScore = 55

\* both numeric fields are present as JSON integers
BothNum ==
    /\ HasMapping
    /\ {"recycledContent", "rawMaterial"} \subseteq DOMAIN PD
    /\ PD["recycledContent"].t = "num" /\ PD["rawMaterial"].t = "num"
Rec == PD["recycledContent"].n
Raw == PD["rawMaterial"].n

\* C5 as stated: environmentalScore = clamp(60 + floor(recycledContent*0.2
\* - rawMaterial*0.1)), the floor of the exact value (2*rec - raw)/10.
C5_EnvFloor ==
    (Completed /\ BothNum)
    => resp.environmentalScore = Clamp(60 + ((2 * Rec - Raw) \div 10))

\* C5 amended: environmentalScore = clamp(60 + int(recycledContent*0.2 -
\* rawMaterial*0.1)), int() truncating toward zero the value computed in
\* double precision.  In exact terms: with K = 2*rec - raw, the truncation
\* toward zero of K/10 when K is no multiple of 10, and K/10 or the integer
\* next to it toward zero when it is.
C5_EnvTruncDouble ==
    (Completed /\ BothNum)
    => LET K == 2 * Rec - Raw
           T == Sign(K) * (Abs(K) \div 10)
       IN  /\ resp.environmentalScore
                = Max(0, Min(100, 60 + IntOfScaledDiff(Rec, Raw)))
           /\ IF K % 10 # 0
              THEN resp.environmentalScore = Clamp(60 + T)
              ELSE resp.environmentalScore
                       \in {Clamp(60 + T), Clamp(60 + T - Sign(K))}

\* C5 witness: recycledContent = 0 and rawMaterial = 5 (exact value -0.5)
\* are served environmentalScore 60, where the floor gives 59.
C5_Witness ==
    /\ Completed /\ BothNum /\ Rec = 0 /\ Raw = 5
    /\ resp.environmentalScore = 60

\* C6: circularityScore = clamp(round(50 + (recycledContent - rawMaterial)
\* * 0.3 + 10 [energyUse is "low" or "renewable" in any case] + 5
\* [transport is "rail" or "sea" in any case])), energyUse and transport
\* defaulting to "medium" and "road" when absent or empty, round() giving
\* an integer nearest to the sum; 80, 20, "renewable", "rail" gives 83.
C6_Circularity ==
    (/\ Completed /\ BothNum
     /\ AbsentOr("energyUse", {"str"}) /\ AbsentOr("transport", {"str"}))
    => LET e == Lower(TextOf("energyUse", S_medium))
           t == Lower(TextOf("transport", S_road))
           sum10 == 500 + 3 * (Rec - Raw)
                        + (IF e = S_low \/ e = S_renewable THEN 100 ELSE 0)
                        + (IF t = S_rail \/ t = S_sea THEN 50 ELSE 0)
       IN  /\ \E n \in {sum10 \div 10, (sum10 \div 10) + 1} :
                 /\ Abs(10 * n - sum10) <= 5
                 /\ resp.circularityScore = Clamp(n)
           /\ (/\ Rec = 80 /\ Raw = 20
               /\ PD = MkPD(Absent, Absent, JNum(20), JNum(80),
                            JStr(S_renewable), JStr(S_rail), Absent))
              => resp.circularityScore = 83

\* C6 witness: the example: 80, 20, "renewable", "rail" is served 83.
C6_Witness ==
    /\ Completed
    /\ PD = MkPD(Absent, Absent, JNum(20), JNum(80),
                 JStr(S_renewable), JStr(S_rail), Absent)
    /\ resp.circularityScore = 83

IndexOf(f) == CHOOSE i \in 1..Len(ExpectedFields) : ExpectedFields[i] = f

\* C7: missingFields is the subsequence, in the fixed order, of the expected
\* keys that are not keys of the mapping; missingParams is its length; a
\* key present with a falsy value is not missing; the empty mapping gives 7.
C7_MissingFields ==
    Completed
    => LET mf == resp.missingFields
       IN  /\ \A i \in 1..Len(mf) :
                 \E j \in 1..Len(ExpectedFields) : mf[i] = ExpectedFields[j]
           /\ \A j \in 1..Len(ExpectedFields) :
                 (\E i \in 1..Len(mf) : mf[i] = ExpectedFields[j])
                     <=> ExpectedFields[j] \notin DOMAIN PD
           /\ \A i, j \in 1..Len(mf) : i < j => IndexOf(mf[i]) < IndexOf(mf[j])
           /\ resp.missingParams = Len(mf)
           /\ PD = EmptyDict => resp.missingParams = 7

\* C7 witness: material is present as null and endOfLife as a string;
\* the other five keys are reported missing, in order.
C7_Witness ==
    /\ Completed
    /\ PD = MkPD(JNull, Absent, Absent, Absent, Absent, Absent, JStr(<<"a">>))
    /\ resp.missingParams = 5
    /\ resp.missingFields =
         <<"production", "rawMaterial", "recycledContent", "energyUse", "transport">>

\* the body is missing or malformed: absent, unparseable, a JSON value that
\* is no object, or an object whose processData is absent or no object
Malformed ==
    \/ req.body.kind \in {"none", "bad", "scalar"}
    \/ req.body.kind = "obj" /\ ~req.body.hasPD
    \/ req.body.kind = "obj" /\ req.body.hasPD /\ req.body.pdKind = "scalar"

\* C8: a missing or malformed body is treated as the empty mapping: HTTP
\* 200 with circularityScore 50, environmentalScore 65, missingParams 7.
C8_MalformedIsEmpty ==
    (Served /\ Malformed)
    => /\ resp.status = 200
       /\ resp.circularityScore = 50
       /\ resp.environmentalScore = 65
       /\ resp.missingParams = 7

\* C9: for every processData mapping whose recycledContent and rawMaterial
\* are absent or (finite) numbers, the handler completes with HTTP 200
\* whatever JSON values the other five fields hold.
C9_OnlyNumericFieldsFail ==
    (/\ Served /\ HasMapping
     /\ AbsentOr("recycledContent", {"num"})
     /\ AbsentOr("rawMaterial", {"num"}))
    => resp.status = 200

(***************************************************************************)
(* Routing (create_app, lines 12-16, and the route decorators)             *)
(*                                                                         *)
(* Flask registers, besides the decorated routes, the static route         *)
(* <static_url_path>/<path:filename> for GET; with static_url_path="/"     *)
(* that is /<path:filename>, which matches every path but "/".  A path     *)
(* that matches rules, none of them for the request's method, is answered  *)
(* 405 Method Not Allowed by the router; no handler is registered for 405. *)
(***************************************************************************)
Rule(path, method, endpoint) == [path |-> path, method |-> method, endpoint |-> endpoint]

UrlMap ==
    { Rule(<<"api">>, "GET", "api_index"),
      Rule(<<"api", "health">>, "GET", "health"),
      Rule(AssessmentPath, "POST", "run_assessment"),
      Rule(<<"api", "environmental-impact">>, "GET", "get_environmental_impact"),
      Rule(<<"api", "circularity-indicators">>, "GET", "get_circularity_indicators"),
      Rule(<<"api", "flow-data">>, "GET", "get_flow_data"),
      Rule(<<"api", "pie-data">>, "GET", "get_pie_data"),
      Rule(<<"api", "reports", "export">>, "POST", "export_report_csv"),
      Rule(<<>>, "GET", "serve_index") }

RegisteredPaths == {u.path : u \in UrlMap}

\* the static route /<path:filename>: any non-empty filename
MatchesStatic(path) == path # <<>>

\* the endpoint the router selects, or the routing exception
Route(method, path) ==
    IF \E u \in UrlMap : u.path = path /\ u.method = method
    THEN (CHOOSE u \in UrlMap : u.path = path /\ u.method = method).endpoint
    ELSE IF MatchesStatic(path) /\ method = "GET" THEN "static"
    ELSE IF MatchesStatic(path) \/ path \in RegisteredPaths THEN "405"
    ELSE "404"

\* files of the frontend build in static_folder (line 14)
BuildFiles == {<<"index.html">>, <<"static", "main.js">>}

\* request.path.startswith("/api/")
StartsWithApi(path) == Len(path) >= 2 /\ path[1] = "api"

\* not_found (lines 171-175)
NotFoundResponse(path) ==
    IF StartsWithApi(path)
    THEN Response(404, "json-not-found")
    ELSE Response(200, "index.html")

(***************************************************************************)
(* The other handlers.  None touches the generator.                        *)
(***************************************************************************)
Methods == {"GET", "POST"}

ServerPaths ==
    RegisteredPaths \cup BuildFiles
        \cup {<<"api", "unknown">>, <<"api", "">>, <<"foo">>, <<"foo", "bar">>}

Clock == 0..MaxClock

\* a handler that answers `response` to request r and leaves the rest
Answer(r, response) ==
    /\ req' = r
    /\ resp' = response
    /\ UNCHANGED <<rng, seen, pc, treq, tlist, ti>>

\* the requests without a body
Requests == {Request(m, p, NoBody) : m \in Methods, p \in ServerPaths}

\* GET /api (lines 26-44)
ApiIndex ==
    \E r \in Requests :
        Route(r.method, r.path) = "api_index" /\ Answer(r, Response(200, "api-index"))

\* GET /api/health (lines 46-48)
Health ==
    \E r \in Requests, now \in Clock :
        /\ Route(r.method, r.path) = "health"
        /\ Answer(r, [Response(200, "health") EXCEPT !.time = now])

\* GET /api/environmental-impact (lines 100-108)
GetEnvironmentalImpact ==
    \E r \in Requests :
        /\ Route(r.method, r.path) = "get_environmental_impact"
        /\ Answer(r, Response(200, "environmental-impact"))

\* GET /api/circularity-indicators (lines 110-118)
GetCircularityIndicators ==
    \E r \in Requests :
        /\ Route(r.method, r.path) = "get_circularity_indicators"
        /\ Answer(r, Response(200, "circularity-indicators"))

\* GET /api/flow-data (lines 120-129)
GetFlowData ==
    \E r \in Requests :
        /\ Route(r.method, r.path) = "get_flow_data"
        /\ Answer(r, Response(200, "flow-data"))

\* GET /api/pie-data (lines 131-138)
GetPieData ==
    \E r \in Requests :
        /\ Route(r.method, r.path) = "get_pie_data"
        /\ Answer(r, Response(200, "pie-data"))

\* POST /api/reports/export (lines 140-162)
ExportReportCsv ==
    \E r \in Requests, now \in Clock :
        /\ Route(r.method, r.path) = "export_report_csv"
        /\ Answer(r, [Response(200, "report-csv") EXCEPT !.time = now])

\* GET / (lines 167-169)
ServeIndex ==
    \E r \in Requests :
        /\ Route(r.method, r.path) = "serve_index"
        /\ Answer(r, Response(200, "index.html"))

\* the static route on a file of the build
SendStaticFile ==
    \E r \in Requests :
        /\ Route(r.method, r.path) = "static"
        /\ r.path \in BuildFiles
        /\ Answer(r, Response(200, IF r.path = <<"index.html">>
                                   THEN "index.html" ELSE "file"))

\* the static route on a missing file raises NotFound: not_found answers
NotFound ==
    \E r \in Requests :
        /\ \/ Route(r.method, r.path) = "static" /\ r.path \notin BuildFiles
           \/ Route(r.method, r.path) = "404"
        /\ Answer(r, NotFoundResponse(r.path))

\* the router's 405
MethodNotAllowed ==
    \E r \in Requests :
        /\ Route(r.method, r.path) = "405"
        /\ Answer(r, Response(405, "method-not-allowed"))

(***************************************************************************)
(* Spec: the server handles one request after another.                     *)
(***************************************************************************)
\* bodies of the assessment requests of the server: two materials, with or
\* without a production, and one body that fails
KeyedBodies ==
    {PDBody(MkPD(JStr(m), p, Absent, Absent, Absent, Absent, Absent)) :
        m \in {<<"a">>, <<"a", "b">>}, p \in {Absent, JStr(<<"b">>)}}

ServerBodies == KeyedBodies \cup {ScalarBody(JNum(5))}

PostAssessment ==
    \E b \in ServerBodies :
        /\ Route("POST", AssessmentPath) = "run_assessment"
        /\ RunAssessment(Request("POST", AssessmentPath, b))

Init ==
    /\ req = Request("GET", <<>>, NoBody)
    /\ resp = NoResponse
    /\ rng \in RngStates
    /\ seen = EmptyDict
    /\ IdleThreads

Next ==
    \/ ApiIndex
    \/ Health
    \/ PostAssessment
    \/ GetEnvironmentalImpact
    \/ GetCircularityIndicators
    \/ GetFlowData
    \/ GetPieData
    \/ ExportReportCsv
    \/ ServeIndex
    \/ SendStaticFile
    \/ NotFound
    \/ MethodNotAllowed

Spec == Init /\ [][Next]_vars

\* C3: in any sequential series of requests, an assessment returns, for its
\* (material, production), the recommendations order that the first
\* assessment with the same pair returned, whatever was served in between.
C3_SameOrder ==
    (Completed /\ SeedKey(req.body) \in DOMAIN seen)
    => resp.recommendations = seen[SeedKey(req.body)].order

\* C3 witness: a pair is answered for the second time at least, after a
\* pair with another order was answered.
C3_Witness ==
    /\ Completed
    /\ SeedKey(req.body) \in DOMAIN seen
    /\ seen[SeedKey(req.body)].count = 2
    /\ resp.recommendations = seen[SeedKey(req.body)].order
    /\ \E k \in DOMAIN seen : seen[k].order # resp.recommendations

\* C10: a GET or POST request to a path that is no registered endpoint
\* (and no file of the build) gets 404 {"error": "Not found"} when the path
\* starts with /api/, and the frontend entry document with 200 otherwise.
C10_UnknownPaths ==
    (/\ Served
     /\ req.path \notin RegisteredPaths
     /\ req.path \notin BuildFiles)
    => IF StartsWithApi(req.path)
       THEN resp.status = 404 /\ resp.kind = "json-not-found"
       ELSE resp.status = 200 /\ resp.kind = "index.html"

(***************************************************************************)
(* SpecConc: NumThreads assessment requests served by one thread each, as  *)
(* under a threaded WSGI server.  Everything in run_assessment is local to *)
(* the thread but the generator of `random`.  A thread can be preempted    *)
(* between any two calls into the generator: random.seed (line 81) is one  *)
(* call, and random.shuffle (line 88) is a Python loop that calls          *)
(* getrandbits once per draw.                                              *)
(***************************************************************************)
\* lines 52-87: the local computations, random.seed(...) and the catalog
TSeed(t) ==
    /\ pc[t] = "start"
    /\ AssessmentError(treq[t]) = ""
    /\ rng' = Seed(rng, Concat(SeedPart(ProcessData(treq[t]), "material"),
                               SeedPart(ProcessData(treq[t]), "production")))
    /\ tlist' = [tlist EXCEPT ![t] = Catalog]
    /\ ti' = [ti EXCEPT ![t] = Len(Catalog) - 1]
    /\ pc' = [pc EXCEPT ![t] = "shuffle"]
    /\ UNCHANGED <<req, resp, seen, treq>>

\* line 88: one getrandbits call of random.shuffle; a value below i + 1
\* is the j of this round, x[i] and x[j] are swapped and i goes down
TDraw(t) ==
    /\ pc[t] = "shuffle"
    /\ LET d == GetRandBits(rng, BitLength(ti[t] + 1))
       IN  /\ rng' = d.st
           /\ IF d.v < ti[t] + 1
              THEN /\ tlist' = [tlist EXCEPT ![t] = Swap(tlist[t], ti[t], d.v)]
                   /\ ti' = [ti EXCEPT ![t] = ti[t] - 1]
                   /\ pc' = [pc EXCEPT ![t] = IF ti[t] - 1 < 1 THEN "return"
                                              ELSE "shuffle"]
              ELSE UNCHANGED <<tlist, ti, pc>>
    /\ UNCHANGED <<req, resp, seen, treq>>

\* lines 90-98: the response, with the thread's list
TReturn(t) ==
    /\ pc[t] = "return"
    /\ pc' = [pc EXCEPT ![t] = "done"]
    /\ req' = Request("POST", AssessmentPath, treq[t])
    /\ resp' = [Assess(treq[t], 0).resp EXCEPT
                   !.recommendations = SubSeq(tlist[t], 1, 4)]
    /\ UNCHANGED <<rng, seen, treq, tlist, ti>>

InitConc ==
    /\ req = Request("GET", <<>>, NoBody)
    /\ resp = NoResponse
    /\ rng \in RngStates
    /\ seen = EmptyDict
    /\ pc = [t \in ThreadIds |-> "start"]
    /\ treq \in [ThreadIds -> KeyedBodies]
    /\ tlist = [t \in ThreadIds |-> <<>>]
    /\ ti = [t \in ThreadIds |-> 0]

NextConc ==
    \E t \in ThreadIds : TSeed(t) \/ TDraw(t) \/ TReturn(t)

SpecConc == InitConc /\ [][NextConc]_vars

\* the order the request of thread t gets when it is served alone
AloneOrder(t) == Assess(treq[t], 0).resp.recommendations

\* C2: under every interleaving of concurrent assessment requests, each
\* request returns the recommendations order it returns when run alone.
C2_OrderAsAlone ==
    \A t \in ThreadIds : pc[t] = "done" => tlist[t] = AloneOrder(t)

====
